---- MODULE Spec2Model ----
(***************************************************************************)
(* A model of src/chip.py: the Sentinel-2 chip extraction pipeline.        *)
(*                                                                         *)
(* execute reads a point data set, keeps its first two rows, dispatches    *)
(* one ray task (worker) per (Point row, year), waits for the tasks and    *)
(* shuts the runtime down.  A worker runs process_month for the months     *)
(* 1..12; process_month builds the month's time window, queries the scene  *)
(* catalog, sorts the candidates by cloud cover and, when there is one,    *)
(* has create_vrt build a temporary .vrt mosaic and extract_chip crop the  *)
(* chip into <name>.jpg.                                                   *)
(*                                                                         *)
(* Strings are sequences of one-character strings, so that formatting and  *)
(* upper-casing are computed, not assumed.  Real numbers are exact         *)
(* rationals <<numerator, denominator>>.                                   *)
(***************************************************************************)
EXTENDS Integers, Sequences, FiniteSets, TLC

VARIABLES
    geojson,     \* the rows of the input point file: [ID, type]
    year_range,  \* the years handed to execute
    catalog,     \* the scene catalog's content, by month
    pc,          \* position of execute: "read", "loop", "shutdown", "done"
    gdf,         \* the rows execute iterates over
    row,         \* index of the next row of the dispatch loop
    tasks,       \* the dispatched ray tasks, in dispatch order, each with
                 \* the log of the process_month calls it has made
    ray,         \* the ray runtime: "up" or "down"
    written,     \* the output files written: [name, id, year, month]
    tmpfiles,    \* the temporary .vrt files that exist
    arg,         \* input of a pure function under test (<<>>: none)
    ret          \* its result (<<>>: not applied yet)

vars == <<geojson, year_range, catalog, pc, gdf, row, tasks, ray,
          written, tmpfiles, arg, ret>>

mainVars == <<geojson, year_range, catalog, pc, gdf, row, tasks, ray,
              written, tmpfiles>>

---------------------------------------------------------------------------
(* Bounds of the model *)

MaxRows == 3        \* rows in the input file
MaxYears == 2       \* years in year_range
MaxItems == 4       \* candidates in one catalog reply (selection)
MaxCloud == 2       \* largest cloud cover in a reply (selection)
MaxYearSpan == 9    \* years after FirstYear (time window, naming)
MaxBuffer == 3      \* buffer of extract_chip
MaxSize == 3        \* width and height of extract_chip
MaxCoord == 1       \* |x|, |y| of the transformed centre

(* Program constants *)

NumCPUs == 2              \* ray.init(): the CPUs of the runtime, one per task

RowLimit == 2             \* gdf.iloc[:2]
FirstYear == 2019         \* range(2019, 2023)
LastMonth == 12           \* range(1, 13)
CLOUD_COVER_LIMIT == 5    \* Constants.CLOUD_COVER_LIMIT

Months == 1..LastMonth

---------------------------------------------------------------------------
(* Strings *)

LowerCase == <<"a","b","c","d","e","f","g","h","i","j","k","l","m",
               "n","o","p","q","r","s","t","u","v","w","x","y","z">>
UpperCase == <<"A","B","C","D","E","F","G","H","I","J","K","L","M",
               "N","O","P","Q","R","S","T","U","V","W","X","Y","Z">>

\* The upper-case letter of every lower-case letter
UpperTable ==
    [c \in {LowerCase[i] : i \in 1..26} |->
        UpperCase[CHOOSE i \in 1..26 : LowerCase[i] = c]]

\* str.upper() on one character
UpperChar(c) == IF c \in DOMAIN UpperTable THEN UpperTable[c] ELSE c

\* str.upper()
Upper(s) == [i \in 1..Len(s) |-> UpperChar(s[i])]

DigitChar(d) == <<"0","1","2","3","4","5","6","7","8","9">>[d + 1]

\* f'{n}' for an integer n >= 0
RECURSIVE IntToStr(_)
IntToStr(n) ==
    IF n < 10 THEN <<DigitChar(n)>>
    ELSE IntToStr(n \div 10) \o <<DigitChar(n % 10)>>

\* f'{n}': the padding forgotten
NoPad(n) == IntToStr(n)

\* f'{n:02}': zero-padded to at least two characters
ZeroPad2(n) ==
    LET s == IntToStr(n) IN IF Len(s) < 2 THEN <<"0">> \o s ELSE s

\* Constants.COLLECTION = 'sentinel-2-l2a'
COLLECTION == <<"s","e","n","t","i","n","e","l","-","2","-","l","2","a">>

\* f'{id}_S2_L2A_{year}_{month:02}'.upper()
CompositeName(id, year, month) ==
    Upper(id \o <<"_","S","2","_","L","2","A","_">> \o IntToStr(year)
             \o <<"_">> \o ZeroPad2(month))

\* f'{output_name}.jpg'
OutputPng(output_name) == output_name \o <<".","j","p","g">>

---------------------------------------------------------------------------
(* Time window *)

\* datetime(year, month, 1, 0, 0, 0): <<>> stands for ValueError
Datetime(year, month) ==
    IF year \in 1..9999 /\ month \in 1..12 THEN <<year, month, 1>> ELSE <<>>

\* start_date
StartDate(year, month) == Datetime(year, month)

\* The window of December ends in January of the same year
EndDateSameYear(year, month) ==
    IF month < 12 THEN Datetime(year, month + 1) ELSE Datetime(year, 1)

\* end_date: the first day of the next month
EndDate(year, month) ==
    IF month < 12 THEN Datetime(year, month + 1) ELSE Datetime(year + 1, 1)

\* d1 < d2 on datetimes
DateLess(d1, d2) ==
    \/ d1[1] < d2[1]
    \/ d1[1] = d2[1] /\ d1[2] < d2[2]
    \/ d1[1] = d2[1] /\ d1[2] = d2[2] /\ d1[3] < d2[3]

---------------------------------------------------------------------------
(* Scene catalog (satsearch) *)

Scene(cloud, href, asset) == [cloud |-> cloud, href |-> href, asset |-> asset]

\* What the catalog can hold for one window.  asset tells what reading the
\* scene's band files does: "ok", "unreachable" (gdal.Open gives None),
\* "badcrs" (TransformPoint fails), "nowrite" (gdal.Translate writes nothing).
\* error: the catalog query itself fails.
CatalogBase ==
    << [error |-> FALSE, scenes |-> <<>>],
       [error |-> FALSE, scenes |-> <<Scene(3, 1, "ok")>>],
       [error |-> FALSE, scenes |-> <<Scene(10, 1, "ok"), Scene(3, 2, "ok")>>],
       [error |-> TRUE,  scenes |-> <<>>],
       [error |-> FALSE, scenes |-> <<Scene(4, 1, "ok"),
                                      Scene(2, 2, "unreachable"),
                                      Scene(2, 3, "ok")>>],
       [error |-> FALSE, scenes |-> <<Scene(1, 1, "badcrs")>>],
       [error |-> FALSE, scenes |-> <<Scene(0, 1, "nowrite"),
                                      Scene(0, 2, "ok")>>],
       [error |-> FALSE, scenes |-> <<Scene(7, 1, "ok")>>] >>

\* The catalog contents tried: the base cycle, shifted over the months
Catalogs ==
    { [m \in Months |-> CatalogBase[((m + k) % Len(CatalogBase)) + 1]] :
          k \in {0, 3} }

\* search.items() with query eo:cloud_cover lt CLOUD_COVER_LIMIT
Search(cat, month) ==
    LET Keep(s) == s.cloud < CLOUD_COVER_LIMIT
    IN  [error |-> cat[month].error,
         items |-> IF cat[month].error THEN <<>>
                   ELSE SelectSeq(cat[month].scenes, Keep)]

\* One step of a sort that puts x before the elements of equal key
InsertBeforeEqual(x, s) ==
    LET n == Cardinality({i \in 1..Len(s) : s[i].cloud < x.cloud})
    IN  SubSeq(s, 1, n) \o <<x>> \o SubSeq(s, n + 1, Len(s))

\* One step of sorted(): x goes after every element whose key is <= its own
InsertByCloud(x, s) ==
    LET n == Cardinality({i \in 1..Len(s) : s[i].cloud <= x.cloud})
    IN  SubSeq(s, 1, n) \o <<x>> \o SubSeq(s, n + 1, Len(s))

\* sorted(search.items(), key=lambda item: item.properties['eo:cloud_cover'])
RECURSIVE SortedByCloud(_)
SortedByCloud(s) ==
    IF Len(s) = 0 THEN <<>>
    ELSE InsertByCloud(s[Len(s)], SortedByCloud(SubSeq(s, 1, Len(s) - 1)))

\* Every candidate gets a chip
ChosenAll(items) == items

\* if items: item = items[0] -- the scenes a chip is made from
Chosen(items) == IF Len(items) > 0 THEN <<items[1]>> ELSE <<>>

---------------------------------------------------------------------------
(* The pipeline of one month *)

\* No handler: the exception goes on to the caller
NoCatch(r) == r

\* @logger.catch: the exception is logged and the call returns None
LoggerCatch(r) == [r EXCEPT !.raised = FALSE]

\* extract_chip, before the decorator
ExtractChipBody(scene) ==
    IF scene.asset = "unreachable"
    THEN [raised |-> TRUE, wrote |-> FALSE, error |-> "open"]
    ELSE IF scene.asset = "badcrs"
    THEN [raised |-> TRUE, wrote |-> FALSE, error |-> "transform"]
    ELSE IF scene.asset = "nowrite"
    THEN [raised |-> FALSE, wrote |-> FALSE, error |-> "translate"]
    ELSE [raised |-> FALSE, wrote |-> TRUE, error |-> "none"]

ExtractChip(scene) == LoggerCatch(ExtractChipBody(scene))

\* create_vrt, before the decorator: the temporary file is created with
\* delete=False and nothing removes it
CreateVrtBody(scene, output_name, tmp) ==
    LET x == ExtractChip(scene)
    IN  [raised |-> x.raised, vrt |-> {tmp}, wrote |-> x.wrote,
         file |-> OutputPng(output_name), error |-> x.error]

CreateVrt(scene, output_name, tmp) ==
    LoggerCatch(CreateVrtBody(scene, output_name, tmp))

\* process_month, before the decorator, called by task t
ProcessMonthBody(t, id, year, month, cat) ==
    LET start == StartDate(year, month)
        end == EndDate(year, month)
        reply == Search(cat, month)
        items == SortedByCloud(reply.items)
        chosen == Chosen(items)
        name == CompositeName(id, year, month)
        calls == [k \in 1..Len(chosen) |->
                      CreateVrt(chosen[k], name, <<t, month, k>>)]
        none == [raised |-> TRUE, start |-> start, end |-> end,
                 searched |-> FALSE, items |-> 0, mosaics |-> 0, vrt |-> {},
                 wrote |-> FALSE, file |-> OutputPng(name), error |-> "date"]
    IN  IF start = <<>> \/ end = <<>> THEN none
        ELSE IF reply.error THEN [none EXCEPT !.error = "search"]
        ELSE [raised |-> \E k \in 1..Len(chosen) : calls[k].raised,
              start |-> start, end |-> end, searched |-> TRUE,
              items |-> Len(items), mosaics |-> Len(chosen),
              vrt |-> UNION {calls[k].vrt : k \in 1..Len(chosen)},
              wrote |-> \E k \in 1..Len(chosen) : calls[k].wrote,
              file |-> OutputPng(name),
              error |-> IF Len(chosen) = 0 THEN "none" ELSE calls[1].error]

ProcessMonth(t, id, year, month, cat) ==
    LoggerCatch(ProcessMonthBody(t, id, year, month, cat))

---------------------------------------------------------------------------
(* Inputs *)

\* row['ID'] of the i-th row of the point file: unique within the file
RowId(i) ==
    IF i = 1 THEN <<"p", "1">>
    ELSE IF i = 2 THEN <<"P", "1">>
    ELSE <<"q">> \o IntToStr(i)

\* The point files: up to MaxRows rows, each a Point or another geometry
InputFiles ==
    { [i \in 1..n |-> [ID |-> RowId(i), type |-> g[i]]] :
          n \in 0..MaxRows, g \in [1..MaxRows -> {"Point", "Polygon"}] }

\* The year ranges: range(FirstYear, FirstYear + n)
YearRanges == { [k \in 1..n |-> FirstYear + k - 1] : n \in 0..MaxYears }

---------------------------------------------------------------------------
(* execute and the ray runtime *)

Resolved(task) == task.status \in {"done", "failed"}

\* ray.get returns as soon as one task has resolved
WaitedAny(ts) == \E t \in 1..Len(ts) : Resolved(ts[t])

\* ray.get(tasks) returns once every task has resolved
Waited(ts) == \A t \in 1..Len(ts) : Resolved(ts[t])

Running == {t \in 1..Len(tasks) : tasks[t].status = "running"}

Init ==
    /\ geojson \in InputFiles
    /\ year_range \in YearRanges
    /\ catalog \in Catalogs
    /\ pc = "read"
    /\ gdf = <<>>
    /\ row = 1
    /\ tasks = <<>>
    /\ ray = "up"
    /\ written = {}
    /\ tmpfiles = {}
    /\ arg = <<>>
    /\ ret = <<>>

\* gdf = gpd.read_file(geojson_file); gdf = gdf.iloc[:2]
ReadFile ==
    /\ pc = "read"
    /\ gdf' = SubSeq(geojson, 1,
                     IF Len(geojson) < RowLimit THEN Len(geojson) ELSE RowLimit)
    /\ row' = 1
    /\ pc' = "loop"
    /\ UNCHANGED <<geojson, year_range, catalog, tasks, ray, written,
                   tmpfiles, arg, ret>>

\* worker.remote(id, year, geom, lon, lat) for every year of year_range
NewTasks(point, id) ==
    [k \in 1..Len(year_range) |->
        [id |-> id, point |-> point, year |-> year_range[k],
         status |-> "pending", month |-> 1, log |-> <<>>]]

\* One iteration of: for _, row in gdf.iterrows()
DispatchRow ==
    /\ pc = "loop"
    /\ row <= Len(gdf)
    /\ tasks' = IF gdf[row].type # "Point"
                THEN tasks                       \* logger.error; continue
                ELSE tasks \o NewTasks(row, gdf[row].ID)
    /\ row' = row + 1
    /\ UNCHANGED <<geojson, year_range, catalog, pc, gdf, ray, written,
                   tmpfiles, arg, ret>>

\* ray.get(tasks): blocks, then raises if a task failed; the exception
\* leaves execute through its logger.catch, past ray.shutdown()
RayGet ==
    /\ pc = "loop"
    /\ row > Len(gdf)
    /\ Waited(tasks)
    /\ pc' = IF \E t \in 1..Len(tasks) : tasks[t].status = "failed"
             THEN "done" ELSE "shutdown"
    /\ UNCHANGED <<geojson, year_range, catalog, gdf, row, tasks, ray,
                   written, tmpfiles, arg, ret>>

\* ray.shutdown(), and execute returns
RayShutdown ==
    /\ pc = "shutdown"
    /\ ray' = "down"
    /\ pc' = "done"
    /\ UNCHANGED <<geojson, year_range, catalog, gdf, row, tasks,
                   written, tmpfiles, arg, ret>>

\* The runtime starts a dispatched task when a CPU is free
StartTask(t) ==
    /\ ray = "up"
    /\ tasks[t].status = "pending"
    /\ Cardinality(Running) < NumCPUs
    /\ tasks' = [tasks EXCEPT ![t].status = "running"]
    /\ UNCHANGED <<geojson, year_range, catalog, pc, gdf, row, ray,
                   written, tmpfiles, arg, ret>>

\* What a process_month call leaves in the task's log
Attempt(month, r) ==
    [month |-> month, searched |-> r.searched, items |-> r.items, mosaics |-> r.mosaics,
     wrote |-> r.wrote, error |-> r.error]

\* worker: one iteration of: for month in range(1, 13)
WorkerMonth(t) ==
    /\ ray = "up"
    /\ tasks[t].status = "running"
    /\ \E r \in {ProcessMonth(t, tasks[t].id, tasks[t].year, tasks[t].month,
                              catalog)} :
       LET tk == tasks[t]
       IN  /\ tasks' = [tasks EXCEPT
                  ![t].log = Append(@, Attempt(tk.month, r)),
                  ![t].month = IF r.raised THEN @ ELSE @ + 1,
                  ![t].status = IF r.raised THEN "failed"
                                ELSE IF tk.month = LastMonth THEN "done"
                                ELSE @]
           /\ written' = IF r.wrote
                         THEN written \cup {[name |-> r.file, id |-> tk.id,
                                             year |-> tk.year,
                                             month |-> tk.month]}
                         ELSE written
           /\ tmpfiles' = tmpfiles \cup r.vrt
    /\ UNCHANGED <<geojson, year_range, catalog, pc, gdf, row, ray, arg, ret>>

Next ==
    \/ ReadFile
    \/ DispatchRow
    \/ RayGet
    \/ RayShutdown
    \/ \E t \in 1..Len(tasks) : StartTask(t)
    \/ \E t \in 1..Len(tasks) : WorkerMonth(t)

Spec == Init /\ [][Next]_vars

---------------------------------------------------------------------------
(* Exact rational arithmetic for extract_chip's window *)

Abs(n) == IF n < 0 THEN -n ELSE n

RECURSIVE GCD(_, _)
GCD(a, b) == IF b = 0 THEN a ELSE GCD(b, a % b)

\* n/d in lowest terms, the denominator positive (d # 0)
Rat(n, d) ==
    LET g == GCD(Abs(n), Abs(d))
        sg == IF d < 0 THEN -1 ELSE 1
    IN  <<(sg * n) \div g, (sg * d) \div g>>

RInt(n) == <<n, 1>>
RAdd(a, b) == Rat(a[1] * b[2] + b[1] * a[2], a[2] * b[2])
RSub(a, b) == Rat(a[1] * b[2] - b[1] * a[2], a[2] * b[2])
RMul(a, b) == Rat(a[1] * b[1], a[2] * b[2])
RDiv(a, b) == Rat(a[1] * b[2], a[2] * b[1])

\* The buffer spread over the whole size, not over half of it
ResolutionFull(buffer, size) == RDiv(RInt(buffer), RInt(size))

\* x_res = buffer / (width / 2); y_res = buffer / (height / 2)
Resolution(buffer, size) == RDiv(RInt(buffer), RDiv(RInt(size), RInt(2)))

\* half_width = width * x_res / 2; half_height = height * y_res / 2
HalfExtent(size, res) == RDiv(RMul(RInt(size), res), RInt(2))

\* extract_chip: xRes, yRes and projWin for the transformed centre (x, y)
ProjWin(x, y, buffer, width, height) ==
    LET x_res == Resolution(buffer, width)
        y_res == Resolution(buffer, height)
        half_width == HalfExtent(width, x_res)
        half_height == HalfExtent(height, y_res)
    IN  [x_res |-> x_res, y_res |-> y_res,
         ulx |-> RSub(RInt(x), half_width),
         uly |-> RAdd(RInt(y), half_height),
         lrx |-> RAdd(RInt(x), half_width),
         lry |-> RSub(RInt(y), half_height)]

---------------------------------------------------------------------------
(* The pure functions, each applied to inputs drawn from a bounded set *)

\* execute is not running
Idle ==
    /\ geojson = <<>>
    /\ year_range = <<>>
    /\ catalog = [m \in Months |-> CatalogBase[1]]
    /\ pc = "done"
    /\ gdf = <<>>
    /\ row = 1
    /\ tasks = <<>>
    /\ ray = "down"
    /\ written = {}
    /\ tmpfiles = {}

Applied == Len(ret) = 1

\* Catalog replies: up to MaxItems scenes, href the position in the reply
SceneLists ==
    { [i \in 1..n |-> Scene(c[i], i, "ok")] :
          n \in 0..MaxItems, c \in [1..MaxItems -> 0..MaxCloud] }

InitSel == Idle /\ arg \in SceneLists /\ ret = <<>>

\* process_month's selection: items = sorted(...); item = items[0]
SelectScene ==
    /\ ~Applied
    /\ ret' = <<[items |-> SortedByCloud(arg),
                 chosen |-> Chosen(SortedByCloud(arg))]>>
    /\ UNCHANGED <<mainVars, arg>>

SpecSel == InitSel /\ [][SelectScene]_vars

Years == FirstYear..(FirstYear + MaxYearSpan)

InitWin == Idle /\ arg \in [year : Years, month : Months] /\ ret = <<>>

\* process_month's time window: start_date, end_date
BuildWindow ==
    /\ ~Applied
    /\ ret' = <<[start |-> StartDate(arg.year, arg.month),
                 end |-> EndDate(arg.year, arg.month)]>>
    /\ UNCHANGED <<mainVars, arg>>

SpecWin == InitWin /\ [][BuildWindow]_vars

NameIds == {<<"P", "1">>, <<"p", "1">>, <<"q", "2">>, <<"a", "_", "b">>}

InitName ==
    Idle /\ arg \in [id : NameIds, year : Years, month : Months] /\ ret = <<>>

\* process_month's composite_name and create_vrt's output_png
BuildName ==
    /\ ~Applied
    /\ ret' = <<[name |-> CompositeName(arg.id, arg.year, arg.month),
                 file |-> OutputPng(CompositeName(arg.id, arg.year,
                                                  arg.month))]>>
    /\ UNCHANGED <<mainVars, arg>>

SpecName == InitName /\ [][BuildName]_vars

InitChip ==
    /\ Idle
    /\ arg \in [x : (-MaxCoord)..MaxCoord, y : (-MaxCoord)..MaxCoord,
                buffer : 1..MaxBuffer, width : 1..MaxSize, height : 1..MaxSize]
    /\ ret = <<>>

\* extract_chip's window
BuildProjWin ==
    /\ ~Applied
    /\ ret' = <<ProjWin(arg.x, arg.y, arg.buffer, arg.width, arg.height)>>
    /\ UNCHANGED <<mainVars, arg>>

SpecChip == InitChip /\ [][BuildProjWin]_vars

---------------------------------------------------------------------------
(* Properties *)

Log(t) == tasks[t].log

DispatchDone == pc \in {"shutdown", "done"} \/ (pc = "loop" /\ row > Len(gdf))

Dispatched(i, y) ==
    Cardinality({t \in 1..Len(tasks) :
                    tasks[t].point = i /\ tasks[t].year = y})

ValidPoints == {i \in 1..Len(geojson) : geojson[i].type = "Point"}

\* C1: once the dispatch loop is over, every (row, year) with the row a Point
\* of the input file has exactly one task, every other row has none, and
\* the number of tasks is #valid points x #years.
C1_OneTaskPerPointYear ==
    DispatchDone =>
        /\ \A i \in 1..Len(geojson) : \A k \in 1..Len(year_range) :
               Dispatched(i, year_range[k]) =
                   IF i \in ValidPoints THEN 1 ELSE 0
        /\ Len(tasks) = Cardinality(ValidPoints) * Len(year_range)

C3_FailureIsolation ==
    \A t \in 1..Len(tasks) :
        /\ tasks[t].status # "failed"
        /\ Len(Log(t)) = tasks[t].month - 1
        /\ \A k \in 1..Len(Log(t)) : Log(t)[k].month = k
        /\ tasks[t].status = "done" => Len(Log(t)) = LastMonth
        /\ pc = "done" => Len(Log(t)) = LastMonth

\* C3 witness: a finished task in which a catalog failure, an unreadable
\* asset, a failed transform and a failed write were each followed by a
\* month that wrote its chip, while a sibling task also finished.
C3_Witness ==
    \E t \in 1..Len(tasks) :
        /\ tasks[t].status = "done"
        /\ \A e \in {"search", "open", "transform", "translate"} :
               \E k \in 1..LastMonth : \E j \in (k + 1)..LastMonth :
                   Log(t)[k].error = e /\ Log(t)[j].wrote
        /\ \E u \in 1..Len(tasks) : u # t /\ tasks[u].status = "done"

\* C4: a month whose query returns no candidate builds no mosaic, writes no
\* file and records no error; no month builds more than one mosaic; every
\* output file and every mosaic belongs to a window whose candidate set was
\* not empty.
C4_EmptyMonthSkipped ==
    /\ \A t \in 1..Len(tasks) : \A k \in 1..Len(Log(t)) :
           LET a == Log(t)[k]
           IN  /\ (a.searched /\ a.items = 0) =>
                      (a.mosaics = 0 /\ ~a.wrote /\ a.error = "none")
               /\ a.mosaics <= 1
               /\ a.wrote => a.items > 0
    /\ \A f \in tmpfiles : f[3] = 1      \* the only mosaic of its call
    /\ {w.month : w \in written} \cup {f[2] : f \in tmpfiles}
           \subseteq {m \in Months : Len(Search(catalog, m).items) > 0}

\* C4 witness: a finished task that skipped a month without candidates and
\* wrote the chip of another month.
C4_Witness ==
    \E t \in 1..Len(tasks) :
        /\ tasks[t].status = "done"
        /\ \E k \in 1..LastMonth :
               Log(t)[k].searched /\ Log(t)[k].items = 0
        /\ \E k \in 1..LastMonth : Log(t)[k].wrote

\* C5: no two distinct (point id, year, month) units write the same output
\* file.
C5_NoNameCollision ==
    \A w1 \in written : \A w2 \in written :
        w1.name = w2.name =>
            (w1.id = w2.id /\ w1.year = w2.year /\ w1.month = w2.month)

Digits4(n) ==
    <<DigitChar(n \div 1000), DigitChar((n \div 100) % 10),
      DigitChar((n \div 10) % 10), DigitChar(n % 10)>>

Digits2(n) == <<DigitChar(n \div 10), DigitChar(n % 10)>>

C7_NoTmpLeft == tmpfiles = {}

\* C8: the selected scene has a cloud cover <= that of every candidate, and
\* is the first of the reply among those with the lowest cloud cover.
C8_LowestCloudFirst ==
    (Applied /\ Len(arg) > 0) =>
        /\ Len(ret[1].chosen) = 1
        /\ LET sel == ret[1].chosen[1]
           IN  /\ sel.href \in 1..Len(arg)
               /\ arg[sel.href] = sel
               /\ \A j \in 1..Len(arg) :
                      /\ sel.cloud <= arg[j].cloud
                      /\ arg[j].cloud = sel.cloud => sel.href <= j

\* C8 witness: a reply whose lowest cloud cover is shared by its second and
\* third scene has been sorted and its second scene selected.
C8_Witness ==
    /\ Applied
    /\ Len(arg) >= 3
    /\ arg[1].cloud > arg[2].cloud
    /\ arg[2].cloud = arg[3].cloud
    /\ \A j \in 1..Len(arg) : arg[2].cloud <= arg[j].cloud
    /\ ret[1].chosen = <<arg[2]>>

MonthIndex(d) == d[1] * 12 + d[2]

====
